---- MODULE Spec2Model ----
(***************************************************************************)
(* DataSift (astro_plasma/core/datasift.py): the batch-locating and        *)
(* interpolation engine over a 4-dimensional grid (nH, temperature,        *)
(* metallicity, redshift) stored in fixed-size batches.                    *)
(*                                                                         *)
(* Conventions.                                                            *)
(*  - Python sequences are TLA+ tuples; Python index i is tuple index i+1. *)
(*  - None is the empty tuple <<>>.                                        *)
(*  - An argument is [arr |-> is it a list/ndarray of rank 1, v |-> its    *)
(*    values]; a scalar is [arr |-> FALSE, v |-> <<x>>].                   *)
(*  - Coordinates and table values are integers.  A weight 1/dist is the   *)
(*    pair <<e, o>> standing for e * (1/epsilon) + o / WUnit: e counts the *)
(*    neighbours at distance 0 (weight 1/epsilon = 10^15 each), o is the   *)
(*    weight of the others in units of 1/WUnit.                            *)
(***************************************************************************)
EXTENDS Integers, Sequences, FiniteSets, TLC

VARIABLES
    nH_data,      \* self.nH_data
    T_data,       \* self.T_data
    Z_data,       \* self.Z_data
    red_data,     \* self.red_data
    batch_size,   \* self.batch_size
    store,        \* the table on disk: linear index -> row
    self,         \* the per-call fields _interpolate keeps on the object
    args,         \* the arguments of each call of _interpolate
    call,         \* the locals of each call and its position
    obs           \* what each call did to its collaborators (history)

vars == <<nH_data, T_data, Z_data, red_data, batch_size, store, self, args, call, obs>>

-----------------------------------------------------------------------------
(* Bounds of the model *)

\* longest array argument
MaxLen == 2

\* weights other than 1/epsilon are kept in units of 1/WUnit
WUnit == 1000

\* largest squared distance between a grid value and a query value
MaxD2 == 100

\* columns of a stored row (the property vector length)
PLen == 2

(* Program constants *)

\* 2.0 * np.std(...)
OutlierSigma == 2

None == <<>>

Calls == {1, 2}

Modes == {"PIE", "CIE", "XIE"}

\* the dataset keys a batch file holds; a caller may name any key
Datasets == {"ionization"}

Keys == {"ionization", "absent"}

-----------------------------------------------------------------------------
(* Python helpers *)

\* a function on 1..n as a tuple, its values computed once
List(f) == f \o <<>>

RECURSIVE SumRange(_, _, _)
\* sum of f[lo..hi]
SumRange(f, lo, hi) ==
    IF lo > hi THEN 0
    ELSE IF lo = hi THEN f[lo]
    ELSE LET mid == (lo + hi) \div 2
         IN  SumRange(f, lo, mid) + SumRange(f, mid + 1, hi)

\* np.sum of a tuple
Sum(f) == SumRange(f, 1, Len(f))

\* np.sum of a list of flags
SumFlags(flags) == Cardinality({p \in DOMAIN flags : flags[p]})

Abs(x) == IF x < 0 THEN -x ELSE x

\* np.prod of a shape
Prod(shape) == IF shape = <<>> THEN 1 ELSE shape[1]

\* seq[i] of Python for a valid index: a negative index counts from the end
PyAt(seq, i) == IF i < 0 THEN seq[Len(seq) + i + 1] ELSE seq[i + 1]

\* seq[i] of Python raises IndexError outside -len .. len-1
PyInRange(seq, i) == i >= -Len(seq) /\ i < Len(seq)

RECURSIVE IsqrtIn(_, _, _)
\* the r in lo..hi with r * r <= x < (r + 1) * (r + 1), by bisection
IsqrtIn(x, lo, hi) ==
    IF lo = hi THEN lo
    ELSE LET mid == (lo + hi + 1) \div 2
         IN  IF mid * mid <= x THEN IsqrtIn(x, mid, hi) ELSE IsqrtIn(x, lo, mid - 1)

\* floor(WUnit / sqrt(d2)) for d2 in 1..MaxD2
WeightTable == List([d2 \in 1..MaxD2 |-> IsqrtIn((WUnit * WUnit) \div d2, 0, WUnit)])

-----------------------------------------------------------------------------
(* GridIndex *)

_get_counter(i, j, k, m) ==
    m * Len(Z_data) * Len(T_data) * Len(nH_data)
    + k * Len(T_data) * Len(nH_data)
    + j * Len(nH_data)
    + i

_identify_batch(i, j, k, m) == _get_counter(i, j, k, m) \div batch_size

\* self.total_size
total_size == Len(nH_data) * Len(T_data) * Len(Z_data) * Len(red_data)

-----------------------------------------------------------------------------
(* ArgumentNormalizer *)

_process_arguments_flags(nH, temperature, metallicity, redshift) ==
    LET a == <<nH, temperature, metallicity, redshift>>
        _array_argument == [p \in 1..4 |-> a[p].arr]
        _dummy_array == [p \in 1..4 |-> _array_argument[p] /\ Len(a[p].v) = 1]
    IN  <<_array_argument, _dummy_array>>

\* the shape of np.array(argument)
ShapeOf(a) == IF a.arr THEN <<Len(a.v)>> ELSE <<>>

RECURSIVE PrepareFrom(_, _, _, _)
\* the loop of _prepare_arguments from position p on, with _input_shape as it
\* stands; "raise" when a later array has another shape
PrepareFrom(a, _array_argument, p, _input_shape) ==
    IF p > 4 THEN <<"ok", _input_shape>>
    ELSE IF ~_array_argument[p] THEN PrepareFrom(a, _array_argument, p + 1, _input_shape)
    ELSE IF _input_shape = None THEN PrepareFrom(a, _array_argument, p + 1, <<ShapeOf(a[p])>>)
    ELSE IF _input_shape[1] # ShapeOf(a[p]) THEN <<"raise", _input_shape>>
    ELSE PrepareFrom(a, _array_argument, p + 1, _input_shape)

\* a variant of _prepare_arguments without the comparison of the array shapes
\* (no raise at line 187): the first array gives the input shape
_prepare_arguments_unchecked(nH, temperature, metallicity, redshift, _array_argument, _dummy_array) ==
    LET a == <<nH, temperature, metallicity, redshift>>
        arrays == {p \in 1..4 : _array_argument[p]}
        first == CHOOSE p \in arrays : \A q \in arrays : p <= q
    IN  [err |-> "",
         input_shape |-> IF arrays = {} THEN <<1>> ELSE <<Len(a[first].v)>>,
         argument_collection |-> [p \in 1..4 |-> a[p].v]]

\* [err, input_shape, argument_collection]; a shape is wrapped in a 1-tuple
\* inside PrepareFrom so that None differs from every shape
_prepare_arguments(nH, temperature, metallicity, redshift, _array_argument, _dummy_array) ==
    LET a == <<nH, temperature, metallicity, redshift>>
        loop == PrepareFrom(a, _array_argument, 1, None)
        argument_collection == [p \in 1..4 |-> a[p].v]
        single == SumFlags(_dummy_array) = 4 \/ SumFlags(_array_argument) = 0
    IN  IF loop[1] = "raise"
        THEN [err |-> "IncompatibleShapes", input_shape |-> None, argument_collection |-> None]
        ELSE IF single
        THEN [err |-> "", input_shape |-> <<1>>, argument_collection |-> argument_collection]
        ELSE IF loop[2] = None
        THEN [err |-> "InvalidArguments", input_shape |-> None, argument_collection |-> None]
        ELSE [err |-> "", input_shape |-> loop[2][1], argument_collection |-> argument_collection]

\* a variant of the point selection that takes element 0 of every argument
PointArgumentsFirst(_array_argument, _dummy_array, argument_collection, indx) ==
    [p \in 1..4 |-> PyAt(argument_collection[p], 0)]

\* the four values of query point indx (lines 214-220 and 414-420)
PointArguments(_array_argument, _dummy_array, argument_collection, indx) ==
    [p \in 1..4 |->
        IF _dummy_array[p] \/ ~_array_argument[p]
        THEN PyAt(argument_collection[p], 0)
        ELSE PyAt(argument_collection[p], indx)]

\* argument_collection[p][indx] raises IndexError when the array is too short
PointInRange(_array_argument, _dummy_array, argument_collection, indx) ==
    \A p \in 1..4 :
        IF _dummy_array[p] \/ ~_array_argument[p]
        THEN PyInRange(argument_collection[p], 0)
        ELSE PyInRange(argument_collection[p], indx)

-----------------------------------------------------------------------------
(* BatchLocator *)

\* np.sum(x == axis)
CountEq(x, axis) == Cardinality({p \in 1..Len(axis) : x = axis[p]})

\* np.sum(x > axis)
CountGt(x, axis) == Cardinality({p \in 1..Len(axis) : x > axis[p]})

\* the candidate indices of one dimension (the block the source repeats for
\* each of the four dimensions)
PosInDim(x, axis) ==
    IF CountEq(x, axis) = 1
    THEN LET eq == (CHOOSE p \in 1..Len(axis) : x = axis[p]) - 1
         IN  <<eq - 1, eq, eq + 1>>
    ELSE <<CountGt(x, axis) - 1, CountGt(x, axis)>>

_identify_pos_in_each_dim(nH, temperature, metallicity, redshift) ==
    <<PosInDim(nH, nH_data), PosInDim(temperature, T_data),
      PosInDim(metallicity, Z_data), PosInDim(redshift, red_data)>>

\* a variant of the clamp that moves -1 to 0 but leaves the upper edge alone
TransformEdgeLowOnly(i, n) == IF i = -1 THEN 0 ELSE i

\* one dimension of _transform_edges: the two tests run one after the other
TransformEdge(i, n) ==
    LET a == IF i = n THEN i - 1 ELSE i
    IN  IF a = -1 THEN a + 1 ELSE a

\* log.warning is called in one dimension of _transform_edges
EdgeWarns(i, n) == i = n \/ (IF i = n THEN i - 1 ELSE i) = -1

_transform_edges(i, j, k, m) ==
    <<TransformEdge(i, Len(nH_data)), TransformEdge(j, Len(T_data)),
      TransformEdge(k, Len(Z_data)), TransformEdge(m, Len(red_data))>>

TransformWarns(i, j, k, m) ==
    \/ EdgeWarns(i, Len(nH_data))
    \/ EdgeWarns(j, Len(T_data))
    \/ EdgeWarns(k, Len(Z_data))
    \/ EdgeWarns(m, Len(red_data))

\* product(i_vals, j_vals, k_vals, m_vals): the tuples in the order itertools
\* yields them, the last position varying fastest
Product(pos) ==
    LET li == Len(pos[1])
        lj == Len(pos[2])
        lk == Len(pos[3])
        lm == Len(pos[4])
    IN  List([n \in 1..(li * lj * lk * lm) |->
            <<pos[1][((n - 1) \div (lm * lk * lj)) + 1],
              pos[2][(((n - 1) \div (lm * lk)) % lj) + 1],
              pos[3][(((n - 1) \div lm) % lk) + 1],
              pos[4][((n - 1) % lm) + 1]>>])

\* the grid cells visited for one query point, before and after _transform_edges
RawCells(point) ==
    Product(_identify_pos_in_each_dim(point[1], point[2], point[3], point[4]))

Cells(point) ==
    LET raw == RawCells(point)
    IN  List([n \in 1..Len(raw) |-> _transform_edges(raw[n][1], raw[n][2], raw[n][3], raw[n][4])])

_find_all_batches_single(nH, temperature, metallicity, redshift) ==
    LET cells == Cells(<<nH, temperature, metallicity, redshift>>)
    IN  {_identify_batch(cells[n][1], cells[n][2], cells[n][3], cells[n][4]) : n \in 1..Len(cells)}

\* _find_all_batches reads the fields of the object, here given as s:
\* [err, batch_ids]
_find_all_batches(s) ==
    IF SumFlags(s.dummy_array) = 4 \/ SumFlags(s.array_argument) = 0
    THEN LET a == [p \in 1..4 |-> PyAt(s.argument_collection[p], 0)]
         IN  [err |-> "", batch_ids |-> _find_all_batches_single(a[1], a[2], a[3], a[4])]
    ELSE LET n == Prod(s.input_shape)
             bad == {indx \in 0..(n - 1) :
                        ~PointInRange(s.array_argument, s.dummy_array, s.argument_collection, indx)}
             all == UNION {LET a == PointArguments(s.array_argument, s.dummy_array,
                                                   s.argument_collection, indx)
                           IN  _find_all_batches_single(a[1], a[2], a[3], a[4]) :
                           indx \in {x \in 0..(n - 1) : x \notin bad}}
         IN  IF bad # {} THEN [err |-> "IndexError", batch_ids |-> {}]
             ELSE IF all = {} THEN [err |-> "NoBatchesResolved", batch_ids |-> {}]
             ELSE [err |-> "", batch_ids |-> all]

-----------------------------------------------------------------------------
(* InterpolationEngine *)

\* the default scaling_func: lambda x: x
scaling_func(x) == x

\* dist_l2 ** 2 for one cell (lines 434-438)
Dist2(cell, point) ==
    LET d_i == Abs(scaling_func(PyAt(nH_data, cell[1])) - scaling_func(point[1]))
        d_j == Abs(scaling_func(PyAt(T_data, cell[2])) - scaling_func(point[2]))
        d_k == Abs(scaling_func(PyAt(Z_data, cell[3])) - scaling_func(point[3]))
        d_m == Abs(scaling_func(PyAt(red_data, cell[4])) - scaling_func(point[4]))
    IN  d_i * d_i + d_j * d_j + d_k * d_k + d_m * d_m

\* 1 / dist_l2, with dist_l2 = epsilon when dist_l2 <= 0.0 (lines 439-441)
Weight(cell, point) ==
    LET d2 == Dist2(cell, point)
    IN  IF d2 <= 0 THEN <<1, 0>> ELSE <<0, WeightTable[d2]>>

\* self.nH_data[i] ... self.red_data[m] raise no IndexError
CellInRange(cell) ==
    /\ PyInRange(nH_data, cell[1])
    /\ PyInRange(T_data, cell[2])
    /\ PyInRange(Z_data, cell[3])
    /\ PyInRange(red_data, cell[4])

\* the row of the batch array that index local_pos selects
RowOf(local_pos) == IF local_pos < 0 THEN batch_size + local_pos ELSE local_pos

\* np.array(hdf[interp_data])[local_pos, :]
ReadRow(batch_id, local_pos) == store[batch_id * batch_size + RowOf(local_pos)]

\* the two np.piecewise calls on one component (lines 459-462)
CutValue(v, cut) ==
    LET a == IF cut[1] # None /\ v <= cut[1][1] THEN cut[1][1] ELSE v
    IN  IF cut[2] # None /\ a >= cut[2][1] THEN cut[2][1] ELSE a

\* line 468 on one column: the mask abs(v - mean) > 2.0 * std, with
\* mean = S / n and std = sqrt(Q / n - (S / n) ** 2), cleared of the division
\* and the square root
FilterOutliers(col) ==
    LET n == Len(col)
        S == Sum(col)
        Q == Sum(List([x \in 1..n |-> col[x] * col[x]]))
        rhs == OutlierSigma * OutlierSigma * (n * Q - S * S)
    IN  List([x \in 1..n |-> IF (n * col[x] - S) * (n * col[x] - S) > rhs THEN 0 ELSE col[x]])

\* a variant of the weighted average that leaves the weights of the zeroed
\* values out of the denominator
WeightedAverageOfKept(weights, col) ==
    LET n == Len(col)
    IN  [num |-> <<Sum(List([x \in 1..n |-> weights[x][1] * col[x]])),
                   Sum(List([x \in 1..n |-> weights[x][2] * col[x]]))>>,
         den |-> <<Sum(List([x \in 1..n |-> IF col[x] = 0 THEN 0 ELSE weights[x][1]])),
                   Sum(List([x \in 1..n |-> IF col[x] = 0 THEN 0 ELSE weights[x][2]]))>>]

\* line 471 on one column: all_weights.T @ all_values / np.sum(all_weights),
\* as the fraction num / den of two weights-as-pairs
WeightedAverage(weights, col) ==
    LET n == Len(col)
    IN  [num |-> <<Sum(List([x \in 1..n |-> weights[x][1] * col[x]])),
                   Sum(List([x \in 1..n |-> weights[x][2] * col[x]]))>>,
         den |-> <<Sum(List([x \in 1..n |-> weights[x][1]])),
                   Sum(List([x \in 1..n |-> weights[x][2]]))>>]

\* what stops the visit of one cell: nothing (""), or the exception raised
CellError(cell, data, interp_data) ==
    IF ~CellInRange(cell) THEN "IndexError"
    ELSE IF _identify_batch(cell[1], cell[2], cell[3], cell[4]) \notin data
    THEN "BatchHandleMissing"
    ELSE IF interp_data \notin Datasets THEN "KeyError"
    ELSE ""

\* the visit of one cell (lines 432-454): its batch, the index of its row and
\* the row that index selects in the batch
Visit(cell) ==
    LET counter == _get_counter(cell[1], cell[2], cell[3], cell[4])
        batch_id == counter \div batch_size
        local_pos == (counter % batch_size) - 1
    IN  [cell |-> cell, batch_id |-> batch_id, local_pos |-> local_pos,
         value |-> ReadRow(batch_id, local_pos)]

\* one pass of the loop over the query points (lines 413-471) for the point
\* with arguments `point`, with the batches of `data` open:
\* [err, value, reads, warned]
EstimatePoint(point, data, interp_data, cut) ==
    LET raw == RawCells(point)
        cells == Cells(point)
        n == Len(cells)
        failing == {x \in 1..n : CellError(cells[x], data, interp_data) # ""}
        first == CHOOSE x \in failing : \A y \in failing : x <= y
        visited == IF failing = {} THEN n ELSE first
        warned == \E x \in 1..visited :
                      TransformWarns(raw[x][1], raw[x][2], raw[x][3], raw[x][4])
    IN  IF failing # {}
        THEN [err |-> CellError(cells[first], data, interp_data), value |-> None,
              reads |-> List([x \in 1..(first - 1) |-> Visit(cells[x])]), warned |-> warned]
        ELSE LET weights == List([x \in 1..n |-> Weight(cells[x], point)])
                 reads == List([x \in 1..n |-> Visit(cells[x])])
                 value == List([c \in 1..PLen |->
                             WeightedAverage(weights,
                                 FilterOutliers(List([x \in 1..n |-> CutValue(reads[x].value[c], cut)])))])
             IN  [err |-> "", value |-> value, reads |-> reads, warned |-> warned]

-----------------------------------------------------------------------------
(* Orchestrator: _interpolate, one action per step of a call *)

\* a call that has not been made
NoCall ==
    [pc |-> "off", array_argument |-> None, dummy_array |-> None, input_shape |-> None,
     argument_collection |-> None, batch_ids |-> {}, data |-> {}, indx |-> 0,
     interp_value |-> <<>>, err |-> "", result |-> None]

NewCall == [NoCall EXCEPT !.pc = "start"]

NoObs ==
    [steps |-> <<>>, downloads |-> <<>>, opens |-> <<>>, closes |-> <<>>,
     reads |-> <<>>, points |-> <<>>, warned |-> FALSE]

\* the object after __init__: the per-call fields do not exist yet
NewSelf ==
    [array_argument |-> None, dummy_array |-> None, input_shape |-> None,
     argument_collection |-> None]

Step(c, name) == obs' = [obs EXCEPT ![c].steps = Append(@, name)]

Raise(c, e) == call' = [call EXCEPT ![c].pc = "failed", ![c].err = e]

\* line 388
Flags(c) ==
    /\ call[c].pc = "start"
    /\ LET f == _process_arguments_flags(args[c].nH, args[c].temperature,
                                          args[c].metallicity, args[c].redshift)
       IN  self' = [self EXCEPT !.array_argument = f[1], !.dummy_array = f[2]]
    /\ call' = [call EXCEPT ![c].pc = "prepare"]
    /\ Step(c, "flags")
    /\ UNCHANGED <<nH_data, T_data, Z_data, red_data, batch_size, store, args>>

\* line 389
Prepare(c) ==
    /\ call[c].pc = "prepare"
    /\ LET r == _prepare_arguments(args[c].nH, args[c].temperature, args[c].metallicity,
                                   args[c].redshift, self.array_argument, self.dummy_array)
       IN  IF r.err # ""
           THEN /\ Raise(c, r.err)
                /\ UNCHANGED self
           ELSE /\ self' = [self EXCEPT !.input_shape = r.input_shape,
                                        !.argument_collection = r.argument_collection]
                /\ call' = [call EXCEPT ![c].pc = "locals"]
    /\ Step(c, "prepare")
    /\ UNCHANGED <<nH_data, T_data, Z_data, red_data, batch_size, store, args>>

\* lines 391-392
Locals(c) ==
    /\ call[c].pc = "locals"
    /\ call' = [call EXCEPT ![c].pc = "mode",
                            ![c].array_argument = self.array_argument,
                            ![c].dummy_array = self.dummy_array,
                            ![c].input_shape = self.input_shape,
                            ![c].argument_collection = self.argument_collection]
    /\ Step(c, "locals")
    /\ UNCHANGED <<nH_data, T_data, Z_data, red_data, batch_size, store, self, args>>

\* lines 394-395
CheckMode(c) ==
    /\ call[c].pc = "mode"
    /\ IF ~(args[c].mode = "PIE" \/ args[c].mode = "CIE")
       THEN Raise(c, "InvalidMode")
       ELSE call' = [call EXCEPT ![c].pc = "find"]
    /\ Step(c, "mode")
    /\ UNCHANGED <<nH_data, T_data, Z_data, red_data, batch_size, store, self, args>>

\* line 397
FindAllBatches(c) ==
    /\ call[c].pc = "find"
    /\ LET r == _find_all_batches(self)
       IN  IF r.err # ""
           THEN Raise(c, r.err)
           ELSE call' = [call EXCEPT ![c].pc = "download", ![c].batch_ids = r.batch_ids]
    /\ Step(c, "find")
    /\ UNCHANGED <<nH_data, T_data, Z_data, red_data, batch_size, store, self, args>>

\* line 399
Download(c) ==
    /\ call[c].pc = "download"
    /\ call' = [call EXCEPT ![c].pc = "open"]
    /\ obs' = [obs EXCEPT ![c].steps = Append(@, "download"),
                          ![c].downloads = Append(@, call[c].batch_ids)]
    /\ UNCHANGED <<nH_data, T_data, Z_data, red_data, batch_size, store, self, args>>

\* the batch ids of `ids` from the smallest on, one entry each
RECURSIVE Listed(_)
Listed(ids) ==
    IF ids = {} THEN <<>>
    ELSE LET b == CHOOSE x \in ids : \A y \in ids : x <= y
         IN  <<b>> \o Listed(ids \ {b})

\* lines 402-406
OpenHandles(c) ==
    /\ call[c].pc = "open"
    /\ call' = [call EXCEPT ![c].pc = IF Prod(call[c].input_shape) = 0 THEN "close" ELSE "estimate",
                            ![c].data = call[c].batch_ids]
    /\ obs' = [obs EXCEPT ![c].steps = Append(@, "open"),
                          ![c].opens = @ \o Listed(call[c].batch_ids)]
    /\ UNCHANGED <<nH_data, T_data, Z_data, red_data, batch_size, store, self, args>>

\* one pass of the loop of lines 413-471
Estimate(c) ==
    /\ call[c].pc = "estimate"
    /\ LET indx == call[c].indx
           inRange == PointInRange(call[c].array_argument, call[c].dummy_array,
                                   call[c].argument_collection, indx)
           point == PointArguments(call[c].array_argument, call[c].dummy_array,
                                   call[c].argument_collection, indx)
           r == EstimatePoint(point, call[c].data, args[c].interp_data, args[c].cut)
       IN  IF ~inRange
           THEN /\ Raise(c, "IndexError")
                /\ Step(c, "estimate")
           ELSE /\ IF r.err # ""
                   THEN Raise(c, r.err)
                   ELSE call' = [call EXCEPT
                            ![c].pc = IF indx + 1 = Prod(call[c].input_shape) THEN "close" ELSE "estimate",
                            ![c].indx = indx + 1,
                            ![c].interp_value = Append(@, r.value)]
                /\ obs' = [obs EXCEPT ![c].steps = Append(@, "estimate"),
                                      ![c].reads = r.reads,
                                      ![c].points = Append(@, point),
                                      ![c].warned = @ \/ r.warned]
    /\ UNCHANGED <<nH_data, T_data, Z_data, red_data, batch_size, store, self, args>>

\* lines 475-476
CloseHandles(c) ==
    /\ call[c].pc = "close"
    /\ call' = [call EXCEPT ![c].pc = "return"]
    /\ obs' = [obs EXCEPT ![c].steps = Append(@, "close"),
                          ![c].closes = @ \o Listed(call[c].data)]
    /\ UNCHANGED <<nH_data, T_data, Z_data, red_data, batch_size, store, self, args>>

\* lines 477-481
Return(c) ==
    /\ call[c].pc = "return"
    /\ IF call[c].interp_value = <<>>
       THEN Raise(c, "IndexError")
       ELSE IF SumFlags(call[c].dummy_array) = 4 \/ SumFlags(call[c].array_argument) = 0
       THEN call' = [call EXCEPT ![c].pc = "done",
                                 ![c].result = [value |-> call[c].interp_value[1],
                                                shape |-> <<PLen>>,
                                                isBatch |-> FALSE]]
       ELSE call' = [call EXCEPT ![c].pc = "done",
                                 ![c].result = [value |-> call[c].interp_value,
                                                shape |-> call[c].input_shape \o <<PLen>>,
                                                isBatch |-> TRUE]]
    /\ Step(c, "return")
    /\ UNCHANGED <<nH_data, T_data, Z_data, red_data, batch_size, store, self, args>>

Next ==
    \E c \in Calls :
        \/ Flags(c)
        \/ Prepare(c)
        \/ Locals(c)
        \/ CheckMode(c)
        \/ FindAllBatches(c)
        \/ Download(c)
        \/ OpenHandles(c)
        \/ Estimate(c)
        \/ CloseHandles(c)
        \/ Return(c)

-----------------------------------------------------------------------------
(* The states after construction, and the calls made *)

\* the scalars over Q and the arrays over Q of up to MaxLen values
ArgsOver(Q) ==
    {[arr |-> FALSE, v |-> <<x>>] : x \in Q}
    \cup {[arr |-> TRUE, v |-> s] : s \in UNION {[1..n -> Q] : n \in 0..MaxLen}}

ScalarsOver(Q) == {[arr |-> FALSE, v |-> <<x>>] : x \in Q}

NoCut == <<None, None>>

\* a call that is never made
IdleArgs ==
    [nH |-> [arr |-> FALSE, v |-> <<0>>], temperature |-> [arr |-> FALSE, v |-> <<0>>],
     metallicity |-> [arr |-> FALSE, v |-> <<0>>], redshift |-> [arr |-> FALSE, v |-> <<0>>],
     mode |-> "PIE", interp_data |-> "ionization", cut |-> NoCut]

\* the batch files hold whole batches: the rows of the last batch past
\* total_size are rows like the others
StoredRows == ((total_size + batch_size - 1) \div batch_size) * batch_size

\* a table whose first column is 100 + linear index, but for the value `val` at
\* linear index `spike` (none when spike < 0)
Table(spike, val) ==
    [L \in 0..(StoredRows - 1) |->
        [c \in 1..PLen |->
            IF c = 1 THEN (IF L = spike THEN val ELSE 100 + L)
            ELSE 50 + ((L * c) % 7)]]

\* one call, with every mixture of scalar, dummy and array arguments
Init ==
    /\ nH_data = <<2, 4, 6>>
    /\ T_data = <<2, 4>>
    /\ Z_data = <<2, 4>>
    /\ red_data = <<2, 4>>
    /\ batch_size = 4
    /\ store = Table(-1, 0)
    /\ self = NewSelf
    /\ \E a1 \in ArgsOver({3, 6}), a2 \in ArgsOver({3}), a3 \in ArgsOver({2}),
          a4 \in ArgsOver({1, 5}), md \in Modes, key \in Keys :
          args = [c \in Calls |->
                    IF c = 1
                    THEN [nH |-> a1, temperature |-> a2, metallicity |-> a3, redshift |-> a4,
                          mode |-> md, interp_data |-> key, cut |-> NoCut]
                    ELSE IdleArgs]
    /\ call = [c \in Calls |-> IF c = 1 THEN NewCall ELSE NoCall]
    /\ obs = [c \in Calls |-> NoObs]

Spec == Init /\ [][Next]_vars

\* one call for one query point, over several grids, batch sizes, tables and
\* cut bounds
InitEst ==
    /\ nH_data \in {<<2, 4, 6>>, <<2, 2, 6>>, <<4>>}
    /\ T_data = <<2, 4>>
    /\ Z_data = <<2, 4>>
    /\ red_data = <<2, 4>>
    /\ batch_size \in {4, 5}
    /\ store \in {Table(-1, 0), Table(12, 0), Table(12, 200)}
    /\ self = NewSelf
    /\ \E a1 \in ScalarsOver({1, 2, 3, 4, 7}), a2 \in ScalarsOver({1, 2, 3, 5}),
          a3 \in ScalarsOver({2, 3}), a4 \in ScalarsOver({3, 4}),
          ct \in {NoCut, <<<<110>>, <<120>>>>} :
          args = [c \in Calls |->
                    IF c = 1
                    THEN [nH |-> a1, temperature |-> a2, metallicity |-> a3, redshift |-> a4,
                          mode |-> "PIE", interp_data |-> "ionization", cut |-> ct]
                    ELSE IdleArgs]
    /\ call = [c \in Calls |-> IF c = 1 THEN NewCall ELSE NoCall]
    /\ obs = [c \in Calls |-> NoObs]

SpecEst == InitEst /\ [][Next]_vars

\* two calls on the same object, their steps interleaved
InitConc ==
    /\ nH_data = <<2, 4, 6>>
    /\ T_data = <<2, 4>>
    /\ Z_data = <<2, 4>>
    /\ red_data = <<2, 4>>
    /\ batch_size = 4
    /\ store = Table(-1, 0)
    /\ self = NewSelf
    /\ args \in [Calls ->
                    {[nH |-> a1, temperature |-> [arr |-> FALSE, v |-> <<3>>],
                      metallicity |-> [arr |-> FALSE, v |-> <<2>>], redshift |-> a4,
                      mode |-> "PIE", interp_data |-> "ionization", cut |-> NoCut] :
                     a1 \in {[arr |-> FALSE, v |-> <<3>>], [arr |-> TRUE, v |-> <<3, 6>>]},
                     a4 \in ScalarsOver({1, 5})}]
    /\ call = [c \in Calls |-> NewCall]
    /\ obs = [c \in Calls |-> NoObs]

SpecConc == InitConc /\ [][Next]_vars

-----------------------------------------------------------------------------
(* The claims.  What a claim says of a call is stated from the call's own    *)
(* arguments (args), not from the fields and locals the code keeps.          *)

OwnArgs(c) == <<args[c].nH, args[c].temperature, args[c].metallicity, args[c].redshift>>

IsDummy(a) == a.arr /\ Len(a.v) = 1

IsNonDummyArray(a) == a.arr /\ Len(a.v) # 1

ModeValid(c) == args[c].mode \in {"PIE", "CIE"}

\* two array-valued arguments of differing lengths
LengthsDiffer(c) ==
    \E p, q \in 1..4 :
        /\ OwnArgs(c)[p].arr
        /\ OwnArgs(c)[q].arr
        /\ Len(OwnArgs(c)[p].v) # Len(OwnArgs(c)[q].v)

Ended(c) == call[c].pc \in {"done", "failed"}

\* C1: every batch file handle a call opened is closed exactly once by the
\* time the call has ended, whether it returned or raised
C1_HandlesClosedOnEveryPath ==
    \A c \in Calls : Ended(c) => obs[c].closes = obs[c].opens

\* C2: a call whose mode is not PIE or CIE, or two of whose array arguments
\* differ in length, fails before the batch set is computed, before the
\* downloader is called and before any handle is opened
C2_InvalidCallDoesNoIO ==
    \A c \in Calls :
        (call[c].pc # "off" /\ (~ModeValid(c) \/ LengthsDiffer(c))) =>
            /\ call[c].pc \in {"start", "prepare", "locals", "mode", "failed"}
            /\ call[c].pc = "failed" => call[c].err \in {"InvalidMode", "IncompatibleShapes"}
            /\ \A x \in 1..Len(obs[c].steps) : obs[c].steps[x] \notin {"find", "download", "open"}
            /\ call[c].batch_ids = {}
            /\ obs[c].downloads = <<>>
            /\ obs[c].opens = <<>>

\* C2 witness: a call with nH of length 1 and redshift of length 2 has failed
C2_Witness ==
    /\ call[1].pc = "failed"
    /\ call[1].err = "IncompatibleShapes"
    /\ ModeValid(1)
    /\ LengthsDiffer(1)

\* C2 witness for the mode: a call with well-shaped arguments has failed on its mode
C2_WitnessMode ==
    /\ call[1].pc = "failed"
    /\ call[1].err = "InvalidMode"
    /\ ~LengthsDiffer(1)

\* the length the non-dummy arrays of a call share, when they do
SharedLength(c) ==
    LET lens == {Len(OwnArgs(c)[p].v) : p \in {q \in 1..4 : IsNonDummyArray(OwnArgs(c)[q])}}
    IN  IF Cardinality(lens) = 1 THEN CHOOSE n \in lens : TRUE ELSE -1

\* C3: a call with an array of n > 1 values and a length-1 array in any other
\* position normalizes: it does not fail on its shapes, and its input shape is (n,)
C3_DummyBesideArray ==
    \A c \in Calls :
        (/\ call[c].pc # "off"
         /\ SharedLength(c) > 1
         /\ \E p \in 1..4 : IsDummy(OwnArgs(c)[p])) =>
            /\ call[c].err # "IncompatibleShapes"
            /\ call[c].pc \in {"mode", "find", "download", "open", "estimate", "close",
                               "return", "done"} => call[c].input_shape = <<SharedLength(c)>>

\* C4: a finished call reports isBatch exactly when its input shape is not
\* (1,) or some argument is a non-dummy array; with four scalar-or-dummy
\* arguments it returns the single estimate vector
C4_IsBatchIffManyPoints ==
    \A c \in Calls :
        call[c].pc = "done" =>
            /\ call[c].result.isBatch =
                  (\/ call[c].input_shape # <<1>>
                   \/ \E p \in 1..4 : IsNonDummyArray(OwnArgs(c)[p]))
            /\ (\A p \in 1..4 : ~IsNonDummyArray(OwnArgs(c)[p])) =>
                  /\ ~call[c].result.isBatch
                  /\ call[c].result.shape = <<PLen>>
            /\ (\E p \in 1..4 : IsNonDummyArray(OwnArgs(c)[p])) =>
                  /\ call[c].result.isBatch
                  /\ call[c].result.shape = call[c].input_shape \o <<PLen>>

\* the axes, in argument order
Axes == <<nH_data, T_data, Z_data, red_data>>

\* LinearIndex of the data model: m*|Z|*|T|*|nH| + k*|T|*|nH| + j*|nH| + i
LinearIndex(cell) ==
    cell[4] * Len(Z_data) * Len(T_data) * Len(nH_data)
    + cell[3] * Len(T_data) * Len(nH_data)
    + cell[2] * Len(nH_data)
    + cell[1]

\* the number of query points of a call: the length its non-dummy arrays
\* share, or 1 when it has none
OwnCount(c) ==
    IF \E p \in 1..4 : IsNonDummyArray(OwnArgs(c)[p]) THEN SharedLength(c) ELSE 1

\* query point k (from 1) of a call: a scalar or a dummy gives its one value
\* to every point
OwnPoint(c, k) ==
    [p \in 1..4 |->
        IF Len(OwnArgs(c)[p].v) = 1 THEN OwnArgs(c)[p].v[1] ELSE OwnArgs(c)[p].v[k]]

\* the batches of all the query points of a call
OwnBatches(c) ==
    UNION {_find_all_batches_single(OwnPoint(c, k)[1], OwnPoint(c, k)[2],
                                    OwnPoint(c, k)[3], OwnPoint(c, k)[4]) :
           k \in 1..OwnCount(c)}

\* the call has just estimated a query point
JustEstimated(c) ==
    /\ call[c].pc \in {"estimate", "close"}
    /\ Len(obs[c].points) >= 1
    /\ Len(call[c].interp_value) = Len(obs[c].points)

LastPoint(c) == obs[c].points[Len(obs[c].points)]

LastEstimate(c) == call[c].interp_value[Len(call[c].interp_value)]

\* every coordinate of the point equals exactly one entry of its axis
OnGrid(point) == \A p \in 1..4 : CountEq(point[p], Axes[p]) = 1

\* the grid cell of an on-grid point
ExactCell(point) ==
    [p \in 1..4 |-> (CHOOSE x \in 1..Len(Axes[p]) : Axes[p][x] = point[p]) - 1]

\* an estimate num / den agrees with `target` within tolerance when the
\* neighbours at distance 0, whose weight 1/epsilon exceeds the weight of all
\* the others together by a factor above 10^12, average to `target`
DominatedBy(est, target) == est.den[1] >= 1 /\ est.num[1] = target * est.den[1]

\* C5: for a query point on the grid, the exact grid cell is among the
\* neighbours at distance 0, and the estimate equals the row stored for that
\* cell (no cut bounds given)
C5_ExactGridPoint ==
    \A c \in Calls :
        (JustEstimated(c) /\ OnGrid(LastPoint(c)) /\ args[c].cut = NoCut) =>
            /\ \E x \in 1..Len(obs[c].reads) :
                  /\ obs[c].reads[x].cell = ExactCell(LastPoint(c))
                  /\ Weight(obs[c].reads[x].cell, LastPoint(c)) = <<1, 0>>
            /\ \A col \in 1..PLen :
                  DominatedBy(LastEstimate(c)[col],
                              store[LinearIndex(ExactCell(LastPoint(c)))][col])

\* C6: every clamped candidate index lies in 0 .. axis_length-1; a coordinate
\* below the axis minimum resolves to index 0 only, one above the maximum to
\* axis_length-1 only, with a warning, and the call does not fail
C6_BoundaryClamp ==
    \A c \in Calls :
        /\ call[c].err # "IndexError"
        /\ Len(obs[c].points) >= 1 =>
            /\ call[c].pc # "failed"
            /\ obs[c].reads # <<>>
            /\ \A x \in 1..Len(obs[c].reads), p \in 1..4 :
                  /\ obs[c].reads[x].cell[p] >= 0
                  /\ obs[c].reads[x].cell[p] <= Len(Axes[p]) - 1
            /\ \A p \in 1..4 :
                  /\ LastPoint(c)[p] < Axes[p][1] =>
                        /\ \A x \in 1..Len(obs[c].reads) : obs[c].reads[x].cell[p] = 0
                        /\ obs[c].warned
                  /\ LastPoint(c)[p] > Axes[p][Len(Axes[p])] =>
                        /\ \A x \in 1..Len(obs[c].reads) :
                              obs[c].reads[x].cell[p] = Len(Axes[p]) - 1
                        /\ obs[c].warned

\* C6 witness: a finished call whose nH lies below the axis and whose
\* temperature lies above it
C6_Witness ==
    /\ call[1].pc = "done"
    /\ Len(obs[1].points) = 1
    /\ LastPoint(1)[1] < nH_data[1]
    /\ LastPoint(1)[2] > T_data[Len(T_data)]
    /\ Len(nH_data) = 3
    /\ obs[1].warned

\* the values of one column as they enter the outlier filter
ColumnRead(c, col) ==
    List([x \in 1..Len(obs[c].reads) |-> CutValue(obs[c].reads[x].value[col], args[c].cut)])

\* the weights of the neighbours of the last point
WeightsRead(c) ==
    List([x \in 1..Len(obs[c].reads) |-> Weight(obs[c].reads[x].cell, LastPoint(c))])

\* the positions of the outliers of a column: the values v that deviate from
\* the mean by more than 2.0 standard deviations,
\* |v - S/n| > 2 * sqrt(Q/n - (S/n)^2), squared and multiplied by n^2
Outliers(vals) ==
    LET n == Len(vals)
        S == Sum(vals)
        Q == Sum(List([x \in 1..n |-> vals[x] * vals[x]]))
        bound == 4 * (n * Q - S * S)
    IN  {x \in 1..n : (n * vals[x] - S) * (n * vals[x] - S) > bound}

\* sum(weight_i * value_i) / sum(weight_i) over all the neighbours
Fraction(weights, vals) ==
    [num |-> <<Sum(List([x \in 1..Len(vals) |-> weights[x][1] * vals[x]])),
               Sum(List([x \in 1..Len(vals) |-> weights[x][2] * vals[x]]))>>,
     den |-> <<Sum(List([x \in 1..Len(vals) |-> weights[x][1]])),
               Sum(List([x \in 1..Len(vals) |-> weights[x][2]]))>>]

\* the column with its outliers replaced by 0
Suppressed(vals) ==
    LET out == Outliers(vals)
    IN  List([x \in 1..Len(vals) |-> IF x \in out THEN 0 ELSE vals[x]])

\* C7 as stated: the estimate of each column is the weighted average with the
\* outliers replaced by 0 and all the weights in the denominator, and it
\* differs from the average without suppression when one sample is an outlier
C7_OutlierSuppression ==
    \A c \in Calls :
        JustEstimated(c) =>
            \A col \in 1..PLen :
                /\ LastEstimate(c)[col] =
                      Fraction(WeightsRead(c), Suppressed(ColumnRead(c, col)))
                /\ Cardinality(Outliers(ColumnRead(c, col))) = 1 =>
                      LastEstimate(c)[col] # Fraction(WeightsRead(c), ColumnRead(c, col))

\* C7 as amended: the same, but the estimate differs from the average without
\* suppression when the one outlier has a value other than 0
C7_OutlierSuppressionNonZero ==
    \A c \in Calls :
        JustEstimated(c) =>
            \A col \in 1..PLen :
                /\ LastEstimate(c)[col] =
                      Fraction(WeightsRead(c), Suppressed(ColumnRead(c, col)))
                /\ (/\ Cardinality(Outliers(ColumnRead(c, col))) = 1
                    /\ \A x \in Outliers(ColumnRead(c, col)) : ColumnRead(c, col)[x] # 0) =>
                      LastEstimate(c)[col] # Fraction(WeightsRead(c), ColumnRead(c, col))

\* C7 witness: one neighbour of the point holds 200 in the first column, is
\* the one outlier of the column, and the estimate is not the unsuppressed one
C7_Witness ==
    /\ JustEstimated(1)
    /\ Cardinality(Outliers(ColumnRead(1, 1))) = 1
    /\ \A x \in Outliers(ColumnRead(1, 1)) : ColumnRead(1, 1)[x] = 200
    /\ LastEstimate(1)[1] # Fraction(WeightsRead(1), ColumnRead(1, 1))

\* the arguments of a call as normalization leaves them: one tuple of values
\* per argument
OwnCollection(c) == [p \in 1..4 |-> OwnArgs(c)[p].v]

\* C8: each of two interleaved calls works from its own arguments only: its
\* normalized arguments, flags and input shape, its batch set, its handles and
\* the points it estimates are those of its own arguments
C8_CallsShareNoState ==
    \A c \in Calls :
        /\ call[c].pc \in {"mode", "find", "download", "open", "estimate", "close",
                           "return", "done"} =>
              /\ call[c].argument_collection = OwnCollection(c)
              /\ call[c].array_argument = [p \in 1..4 |-> OwnArgs(c)[p].arr]
              /\ call[c].dummy_array = [p \in 1..4 |-> IsDummy(OwnArgs(c)[p])]
              /\ call[c].input_shape = <<OwnCount(c)>>
        /\ call[c].pc \in {"download", "open", "estimate", "close", "return", "done"} =>
              call[c].batch_ids = OwnBatches(c)
        /\ call[c].pc \in {"estimate", "close", "return", "done"} =>
              /\ call[c].data = OwnBatches(c)
              /\ \A k \in 1..Len(obs[c].points) : obs[c].points[k] = OwnPoint(c, k)
        /\ call[c].err \notin {"BatchHandleMissing", "IndexError", "NoBatchesResolved"}

\* C9: the row read for a grid cell is the row at offset linearIndex mod
\* batch_size of batch linearIndex div batch_size, the row stored for the cell
C9_RowReadIsRowOfCell ==
    \A c \in Calls :
        \A x \in 1..Len(obs[c].reads) :
            LET r == obs[c].reads[x]
            IN  /\ r.batch_id = LinearIndex(r.cell) \div batch_size
                /\ RowOf(r.local_pos) = LinearIndex(r.cell) % batch_size
                /\ r.value = store[LinearIndex(r.cell)]

\* the steps of a call that returns after estimating n query points
StepsOfCall(n) ==
    <<"flags", "prepare", "locals", "mode", "find", "download", "open">>
    \o [k \in 1..n |-> "estimate"]
    \o <<"close", "return">>

\* C10: a call that returns has run Normalize, LocateBatches, Supply,
\* OpenHandles, one estimate per query point in input order, CloseHandles,
\* Return: one download of the batches of all its query points, each of them
\* opened once and closed once, and every row read from an open handle
C10_CallOrder ==
    \A c \in Calls :
        /\ call[c].pc = "done" =>
              /\ obs[c].steps = StepsOfCall(OwnCount(c))
              /\ obs[c].downloads = <<OwnBatches(c)>>
              /\ obs[c].opens = Listed(OwnBatches(c))
              /\ obs[c].closes = Listed(OwnBatches(c))
              /\ obs[c].points = [k \in 1..OwnCount(c) |-> OwnPoint(c, k)]
              /\ Len(call[c].interp_value) = OwnCount(c)
        /\ (call[c].pc \in {"estimate", "close"} /\ obs[c].reads # <<>>) =>
              /\ obs[c].closes = <<>>
              /\ \A x \in 1..Len(obs[c].reads) :
                    \E y \in 1..Len(obs[c].opens) : obs[c].opens[y] = obs[c].reads[x].batch_id

\* C10 witness: a call for two query points in different batches has returned
C10_Witness ==
    /\ call[1].pc = "done"
    /\ OwnCount(1) = 2
    /\ _find_all_batches_single(OwnPoint(1, 1)[1], OwnPoint(1, 1)[2],
                                OwnPoint(1, 1)[3], OwnPoint(1, 1)[4])
       # _find_all_batches_single(OwnPoint(1, 2)[1], OwnPoint(1, 2)[2],
                                  OwnPoint(1, 2)[3], OwnPoint(1, 2)[4])
    /\ Len(obs[1].downloads) = 1

\* bound * den <= num (AtLeast) and num <= bound * den (AtMost) for an
\* estimate num / den of weights-as-pairs: the 1/epsilon parts decide, the
\* other parts break the tie
AtLeast(est, bound) ==
    \/ est.num[1] > bound * est.den[1]
    \/ est.num[1] = bound * est.den[1] /\ est.num[2] >= bound * est.den[2]

AtMost(est, bound) ==
    \/ est.num[1] < bound * est.den[1]
    \/ est.num[1] = bound * est.den[1] /\ est.num[2] <= bound * est.den[2]

\* both cut bounds of a call are given, low <= high
BothCuts(c) ==
    /\ args[c].cut[1] # None
    /\ args[c].cut[2] # None
    /\ args[c].cut[1][1] <= args[c].cut[2][1]

\* C11: with both cut bounds given, low <= high, every column of the estimate
\* of every query point lies within [low, high]
C11_EstimateWithinCut ==
    \A c \in Calls :
        BothCuts(c) =>
            \A k \in 1..Len(call[c].interp_value), col \in 1..PLen :
                /\ AtLeast(call[c].interp_value[k][col], args[c].cut[1][1])
                /\ AtMost(call[c].interp_value[k][col], args[c].cut[2][1])

\* the call has passed the normalization of its arguments and the test of its mode
Validated(c) ==
    /\ call[c].pc \notin {"off", "start", "prepare", "locals", "mode"}
    /\ call[c].err \notin {"IncompatibleShapes", "InvalidArguments", "InvalidMode"}

\* C12: in a single call that passes validation the batch set is computed
\* and not empty, the batch of every clamped neighbour cell of every query
\* point is in it and has an open handle when it is read, and neither
\* 'Problem identifying batches' nor 'Target batch id is not found' is raised
C12_BatchOfEveryCellLocated ==
    \A c \in Calls :
        Validated(c) =>
            /\ call[c].err \notin {"NoBatchesResolved", "BatchHandleMissing"}
            /\ call[c].pc \in {"download", "open", "estimate", "close", "return", "done"} =>
                  /\ call[c].batch_ids # {}
                  /\ \A k \in 1..OwnCount(c) :
                        \A x \in 1..Len(Cells(OwnPoint(c, k))) :
                            LET cell == Cells(OwnPoint(c, k))[x]
                            IN  _identify_batch(cell[1], cell[2], cell[3], cell[4])
                                    \in call[c].batch_ids
            /\ \A x \in 1..Len(obs[c].reads) : obs[c].reads[x].batch_id \in call[c].data

====
